---------------------------- MODULE Spec2Model ----------------------------
(***************************************************************************)
(* RageCoin ledger: transactions, blocks, proof of work, the Blockchain    *)
(* (chain + pending pool) and the node's longest-valid-chain resolution.   *)
(*                                                                         *)
(* Modelling conventions                                                   *)
(*  - SHA-256 is an ideal hash: a digest is a record whose `body` is the   *)
(*    hashed content (so two digests are equal iff the contents are) and   *)
(*    whose `prefix` is the sequence of its leading hex digits, a          *)
(*    deterministic mix of the content.                                    *)
(*  - An ECDSA signature is the pair <<signing key, signed message>>; the  *)
(*    key of address X is named by X itself.                               *)
(*  - Amounts are integers (Python floats in the source).                  *)
(*  - time.time() is a logical clock that advances at each block built.    *)
(*  - A Python list is a sequence; list index i is position i + 1.         *)
(*  - The node's server handles requests in threads: in the specifications *)
(*    of the node every handler runs statement by statement and the steps  *)
(*    of the other handlers take place in between.  Statements that read   *)
(*    or write locals only are part of the step before them.  A loop over  *)
(*    self.chain is one step (the list only grows while it is the chain);  *)
(*    the loop of get_balance over the pool is one step per item, since    *)
(*    mining inserts at the front of that list.                            *)
(*  - SpecLedger, SpecTamper, SpecStore, SpecMine and SpecVerify are a     *)
(*    Blockchain used by one caller, each call run to its end.             *)
(*  - SpecConsensus is a node that serves one consensus round at a time    *)
(*    and nothing else meanwhile: the round runs statement by statement,   *)
(*    from each of the ledgers the node builds by mining and admitting.    *)
(*  - An exception that leaves a call is a field `raised` of its result.    *)
(***************************************************************************)
EXTENDS Integers, Sequences, FiniteSets, TLC

VARIABLES chain, pending, difficulty, mining_reward, now, lastOp, first, admitted, mining,
          reader, job, sub, round, peers

vars == <<chain, pending, difficulty, mining_reward, now, lastOp, first, admitted, mining,
         reader, job, sub, round, peers>>

---------------------------------------------------------------------------
(* Bounds of the model *)

\* Mine is not explored on a chain that already holds MaxChain blocks
MaxChain == 3
\* add_transaction is not explored once MaxTx transactions were admitted
MaxTx == 2
\* number of peers a node registers
MaxPeers == 2
\* largest pre-mining nonce of the standalone mining inputs
MaxNonce0 == 2

(* Program constants *)
HexBase == 16
MiningReward == 50

\* The `difficulty` the ledgers of the model are built with, and the one of the
\* scratch Blockchain() of resolve_conflicts: every ledger of a node is built
\* with the constructor's default.  The default is 4 leading zero digits; the
\* model takes 1, which keeps the search of mine_block within HexBase nonces.
Difficulty == 1

COINBASE == "COINBASE"
Addresses == {"A", "B"}

---------------------------------------------------------------------------
(* transaction.py *)

NoSig == <<>>

\* Transaction.__init__
Transaction(sender, recipient, amount, signature) ==
    [sender |-> sender, recipient |-> recipient, amount |-> amount,
     signature |-> signature]

\* Transaction.calculate_hash: digest of {sender, recipient, amount}
tx_calculate_hash(tx) == <<tx.sender, tx.recipient, tx.amount>>

\* Transaction.sign_transaction(private_key): key names the owner of the key
sign_transaction(tx, key) ==
    IF tx.sender = COINBASE THEN tx
    ELSE [tx EXCEPT !.signature = <<key, tx_calculate_hash(tx)>>]

\* VerifyingKey.from_string(sender).verify(signature, tx_hash); a sender that
\* is no public key raises, which is_valid turns into False
ecdsa_verify(sender, signature, msg) ==
    /\ sender \in Addresses
    /\ Len(signature) = 2
    /\ signature[1] = sender
    /\ signature[2] = msg

\* is_valid without the COINBASE exemption
is_valid_no_exemption(tx) ==
    IF tx.signature = NoSig THEN FALSE
    ELSE ecdsa_verify(tx.sender, tx.signature, tx_calculate_hash(tx))

\* Transaction.is_valid
is_valid(tx) ==
    IF tx.sender = COINBASE THEN TRUE
    ELSE IF tx.signature = NoSig THEN FALSE
    ELSE ecdsa_verify(tx.sender, tx.signature, tx_calculate_hash(tx))

\* Transaction.to_dict
tx_to_dict(tx) ==
    [sender |-> tx.sender, recipient |-> tx.recipient, amount |-> tx.amount,
     signature |-> tx.signature]

\* Transaction.from_dict
tx_from_dict(d) == Transaction(d.sender, d.recipient, d.amount, d.signature)

---------------------------------------------------------------------------
(* block.py *)

RECURSIVE Pow(_, _)
Pow(b, n) == IF n = 0 THEN 1 ELSE b * Pow(b, n - 1)

\* number of leading hex digits of a digest the model keeps
HashDigits == Difficulty

\* the sentinel previous_hash "0" of a genesis block
Sentinel == [prefix |-> <<0>>, body |-> <<"0">>]

AddrCode(a) ==
    CASE a = "A" -> 1
      [] a = "B" -> 2
      [] a = COINBASE -> 3
      [] OTHER -> 0

RECURSIVE TxMix(_)
TxMix(txs) ==
    IF txs = <<>> THEN 0
    ELSE 3 * AddrCode(Head(txs).sender) + 5 * AddrCode(Head(txs).recipient)
         + Head(txs).amount + 11 * Len(Head(txs).signature) + 2 * TxMix(Tail(txs))

RECURSIVE DigitsOf(_, _)
\* the n-digit base-16 expansion of v, most significant digit first
DigitsOf(v, n) ==
    IF n = 0 THEN <<>> ELSE Append(DigitsOf(v \div HexBase, n - 1), v % HexBase)

\* what a digest given as previous_hash adds to the mix
HashCode(h) ==
    IF Len(h.body) = 5 THEN 9 * h.body[1] + 2 * h.body[3] + h.body[5] + 4 ELSE 1

\* the leading digits of the SHA-256 of a block's five signed fields
Mix(index, transactions, timestamp, previous_hash, nonce) ==
    (7 * nonce + 3 * index + 5 * timestamp + TxMix(transactions)
       + HashCode(previous_hash))
    % Pow(HexBase, HashDigits)

\* calculate_hash leaving the transactions out of the digest
calculate_hash_without_transactions(b) ==
    [prefix |-> DigitsOf(Mix(b.index, <<>>, b.timestamp, b.previous_hash, b.nonce),
                         HashDigits),
     body |-> <<b.index, <<>>, b.timestamp, b.previous_hash, b.nonce>>]

\* Block.calculate_hash: sha256(json.dumps({index, transactions, timestamp,
\* previous_hash, nonce}, sort_keys=True)).hexdigest()
calculate_hash(b) ==
    [prefix |-> DigitsOf(Mix(b.index, b.transactions, b.timestamp,
                             b.previous_hash, b.nonce), HashDigits),
     body |-> <<b.index, b.transactions, b.timestamp, b.previous_hash, b.nonce>>]

\* Block.__init__: the hash is computed from the fields given
Block(index, transactions, timestamp, previous_hash, nonce) ==
    LET b == [index |-> index, transactions |-> transactions,
              timestamp |-> timestamp, previous_hash |-> previous_hash,
              nonce |-> nonce, hash |-> Sentinel]
    IN  [b EXCEPT !.hash = calculate_hash(b)]

\* "0" * difficulty
Target(d) == [i \in 1..d |-> 0]

\* hash[:difficulty] == "0" * difficulty, hash.startswith("0" * difficulty)
StartsWithZeros(h, d) == SubSeq(h.prefix, 1, d) = Target(d)

RECURSIVE MineLoop(_, _)
MineLoop(b, d) ==
    IF SubSeq(b.hash.prefix, 1, d) # Target(d)
    THEN LET n == [b EXCEPT !.nonce = @ + 1]
         IN  MineLoop([n EXCEPT !.hash = calculate_hash(n)], d)
    ELSE b

\* mine_block testing the hash only after a first increment of the nonce
mine_block_increment_first(b, d) ==
    LET n == [b EXCEPT !.nonce = @ + 1]
    IN  MineLoop([n EXCEPT !.hash = calculate_hash(n)], d)

RECURSIVE mine_block(_, _)
\* Block.mine_block: while self.hash[:difficulty] != target:
\*                       self.nonce += 1; self.hash = self.calculate_hash()
mine_block(b, d) ==
    IF SubSeq(b.hash.prefix, 1, d) # Target(d)
    THEN LET n == [b EXCEPT !.nonce = @ + 1]
         IN  mine_block([n EXCEPT !.hash = calculate_hash(n)], d)
    ELSE b

\* Block.to_dict
block_to_dict(b) ==
    [index |-> b.index, transactions |-> b.transactions,
     timestamp |-> b.timestamp, previous_hash |-> b.previous_hash,
     nonce |-> b.nonce, hash |-> b.hash]

\* Block.from_dict keeping the hash the constructor computed
block_from_dict_recomputed(d) ==
    Block(d.index, d.transactions, d.timestamp, d.previous_hash, d.nonce)

\* Block.from_dict: the constructor computes a hash, the stored one replaces it
block_from_dict(d) ==
    [Block(d.index, d.transactions, d.timestamp, d.previous_hash, d.nonce)
        EXCEPT !.hash = d.hash]

---------------------------------------------------------------------------
(* blockchain.py *)

\* Blockchain.create_genesis_block, on the empty chain of __init__
create_genesis_block(d, ts) == <<mine_block(Block(0, <<>>, ts, Sentinel, 0), d)>>

\* Blockchain.get_latest_block
get_latest_block(ch) == ch[Len(ch)]

\* one iteration of either loop of get_balance
BalanceStep(balance, tx, address) ==
    LET b1 == IF tx.sender = address THEN balance - tx.amount ELSE balance
    IN  IF tx.recipient = address THEN b1 + tx.amount ELSE b1

RECURSIVE BalanceOverTxs(_, _, _)
BalanceOverTxs(balance, txs, address) ==
    IF txs = <<>> THEN balance
    ELSE BalanceOverTxs(BalanceStep(balance, Head(txs), address), Tail(txs), address)

RECURSIVE BalanceOverBlocks(_, _, _)
BalanceOverBlocks(balance, blocks, address) ==
    IF blocks = <<>> THEN balance
    ELSE BalanceOverBlocks(BalanceOverTxs(balance, Head(blocks).transactions, address),
                           Tail(blocks), address)

\* get_balance counting the confirmed blocks only
get_balance_confirmed_only(ch, pend, address) == BalanceOverBlocks(0, ch, address)

\* Blockchain.get_balance
get_balance(ch, pend, address) ==
    BalanceOverTxs(BalanceOverBlocks(0, ch, address), pend, address)

\* add_transaction without the test of the addresses
add_transaction_any_address(ch, pend, tx) ==
    IF ~is_valid(tx)
    THEN [ok |-> FALSE, pending |-> pend]
    ELSE IF tx.sender # COINBASE /\ get_balance(ch, pend, tx.sender) < tx.amount
    THEN [ok |-> FALSE, pending |-> pend]
    ELSE [ok |-> TRUE, pending |-> Append(pend, tx)]

\* add_transaction without the test of the balance
add_transaction_no_balance_check(ch, pend, tx) ==
    IF tx.sender = "" \/ tx.recipient = ""
    THEN [ok |-> FALSE, pending |-> pend]
    ELSE IF ~is_valid(tx)
    THEN [ok |-> FALSE, pending |-> pend]
    ELSE [ok |-> TRUE, pending |-> Append(pend, tx)]

\* Blockchain.add_transaction: the value returned and the pool afterwards
add_transaction(ch, pend, tx) ==
    IF tx.sender = "" \/ tx.recipient = ""
    THEN [ok |-> FALSE, pending |-> pend]
    ELSE IF ~is_valid(tx)
    THEN [ok |-> FALSE, pending |-> pend]
    ELSE IF tx.sender # COINBASE /\ get_balance(ch, pend, tx.sender) < tx.amount
    THEN [ok |-> FALSE, pending |-> pend]
    ELSE [ok |-> TRUE, pending |-> Append(pend, tx)]

\* [tx.to_dict() for tx in self.pending_transactions]
RECURSIVE DictsOf(_)
DictsOf(txs) ==
    IF txs = <<>> THEN <<>> ELSE <<tx_to_dict(Head(txs))>> \o DictsOf(Tail(txs))

\* mine_pending_transactions appending the reward after the pool
mine_pending_transactions_reward_last(ch, pend, mining_reward_address, ts, d, reward) ==
    LET reward_tx == Transaction(COINBASE, mining_reward_address, reward, NoSig)
        pend1 == pend \o <<reward_tx>>
        block == Block(Len(ch), DictsOf(pend1), ts, ch[Len(ch)].hash, 0)
    IN  [chain |-> Append(ch, mine_block(block, d)), pending |-> <<>>]

\* mine_pending_transactions putting the new block in the place of the last one
mine_pending_transactions_replacing(ch, pend, mining_reward_address, ts, d, reward) ==
    LET reward_tx == Transaction(COINBASE, mining_reward_address, reward, NoSig)
        pend1 == <<reward_tx>> \o pend
        block == Block(Len(ch), DictsOf(pend1), ts, ch[Len(ch)].hash, 0)
    IN  [chain |-> Append(SubSeq(ch, 1, Len(ch) - 1), mine_block(block, d)),
         pending |-> <<>>]

\* mine_pending_transactions linking the new block to the block before the last
mine_pending_transactions_stale_link(ch, pend, mining_reward_address, ts, d, reward) ==
    LET reward_tx == Transaction(COINBASE, mining_reward_address, reward, NoSig)
        pend1 == <<reward_tx>> \o pend
        prev == IF Len(ch) > 1 THEN ch[Len(ch) - 1] ELSE ch[Len(ch)]
        block == Block(Len(ch), DictsOf(pend1), ts, prev.hash, 0)
    IN  [chain |-> Append(ch, mine_block(block, d)), pending |-> <<>>]

\* Blockchain.mine_pending_transactions: the chain and the pool afterwards
mine_pending_transactions(ch, pend, mining_reward_address, ts, d, reward) ==
    LET reward_tx == Transaction(COINBASE, mining_reward_address, reward, NoSig)
        pend1 == <<reward_tx>> \o pend
        block == Block(Len(ch), DictsOf(pend1), ts, get_latest_block(ch).hash, 0)
    IN  [chain |-> Append(ch, mine_block(block, d)), pending |-> <<>>]

\* for tx_dict in current_block.transactions: Transaction.from_dict(tx_dict).is_valid()
RECURSIVE AllTxValid(_)
AllTxValid(txs) ==
    IF txs = <<>> THEN TRUE
    ELSE is_valid(tx_from_dict(Head(txs))) /\ AllTxValid(Tail(txs))

\* the checks of is_chain_valid without the one of the link
BlockChecks_no_link(ch, i, d) ==
    LET current_block == ch[i + 1]
    IN  /\ current_block.hash = calculate_hash(current_block)
        /\ StartsWithZeros(current_block.hash, d)
        /\ AllTxValid(current_block.transactions)

\* the four checks of is_chain_valid on the block at list index i (position i + 1)
BlockChecks(ch, i, d) ==
    LET current_block == ch[i + 1]
        previous_block == ch[i]
    IN  /\ current_block.hash = calculate_hash(current_block)
        /\ current_block.previous_hash = previous_block.hash
        /\ StartsWithZeros(current_block.hash, d)
        /\ AllTxValid(current_block.transactions)

\* the loop of is_chain_valid from list index i on: the index of the block at
\* which it returns False, 0 when it runs to the end and returns True
RECURSIVE ValidateFrom(_, _, _)
ValidateFrom(ch, i, d) ==
    IF i > Len(ch) - 1 THEN 0
    ELSE IF ~BlockChecks(ch, i, d) THEN i
    ELSE ValidateFrom(ch, i + 1, d)

\* Blockchain.is_chain_valid: for i in range(1, len(self.chain))
is_chain_valid(ch, d) == ValidateFrom(ch, 1, d) = 0

\* Blockchain.__init__
Blockchain(d, reward, ts) ==
    [chain |-> create_genesis_block(d, ts), difficulty |-> d,
     pending_transactions |-> <<>>, mining_reward |-> reward]

\* [block.to_dict() for block in self.chain]
RECURSIVE BlockDicts(_)
BlockDicts(ch) ==
    IF ch = <<>> THEN <<>> ELSE <<block_to_dict(Head(ch))>> \o BlockDicts(Tail(ch))

\* [Block.from_dict(block_dict) for block_dict in data["chain"]]
RECURSIVE BlocksOf(_)
BlocksOf(dicts) ==
    IF dicts = <<>> THEN <<>>
    ELSE <<block_from_dict(Head(dicts))>> \o BlocksOf(Tail(dicts))

\* [Transaction.from_dict(tx_dict) for tx_dict in data["pending_transactions"]]
RECURSIVE TxsOf(_)
TxsOf(dicts) ==
    IF dicts = <<>> THEN <<>>
    ELSE <<tx_from_dict(Head(dicts))>> \o TxsOf(Tail(dicts))

\* Blockchain.to_dict, which save_to_file dumps as JSON; bc is a ledger
\* [chain, difficulty, pending_transactions, mining_reward]
to_dict(bc) ==
    [chain |-> BlockDicts(bc.chain), difficulty |-> bc.difficulty,
     mining_reward |-> bc.mining_reward,
     pending_transactions |-> DictsOf(bc.pending_transactions)]

\* Blockchain.load_from_file on the JSON of `data`: a ledger is constructed
\* (its genesis block mined at time ts), then its chain and pool are replaced
load_from_file(data, ts) ==
    LET blockchain == Blockchain(data.difficulty, data.mining_reward, ts)
    IN  [blockchain EXCEPT !.chain = BlocksOf(data.chain),
                           !.pending_transactions = TxsOf(data.pending_transactions)]

---------------------------------------------------------------------------
(* node.py *)

\* the loop body comparing lengths with >= instead of >
ResolveStep_ties_replace(acc, data, d) ==
    LET length == Len(data)
        ch == BlocksOf(data)
    IN  IF length >= acc.max_length /\ is_chain_valid(ch, d)
        THEN [max_length |-> length, new_chain |-> ch]
        ELSE acc

\* the loop body adopting a longer answer without validating it
ResolveStep_unchecked(acc, data, d) ==
    LET length == Len(data)
        ch == BlocksOf(data)
    IN  IF length > acc.max_length
        THEN [max_length |-> length, new_chain |-> ch]
        ELSE acc

\* the body of the loop of resolve_conflicts for one answering peer; acc is
\* [max_length, new_chain], new_chain = <<>> standing for None
ResolveStep(acc, data, d) ==
    LET length == Len(data)
        ch == BlocksOf(data)
    IN  IF length > acc.max_length /\ is_chain_valid(ch, d)
        THEN [max_length |-> length, new_chain |-> ch]
        ELSE acc

\* What requests.get(peer/chain) gives for one peer:
\*   "chain"       status 200 and a JSON object whose 'chain' is a list of blocks
\*   "unreachable" requests raises a RequestException
\*   "status"      a status other than 200
\*   "malformed"   status 200 and a JSON object without the key 'chain'
Response(kind, data) == [kind |-> kind, chain |-> data]

---------------------------------------------------------------------------
(* Inputs *)

\* a transfer signed by the wallet of its sender
Signed(s, r, a) == sign_transaction(Transaction(s, r, a, NoSig), s)

Transfers ==
    { Signed("A", "B", 30), Signed("A", "B", 20), Signed("A", "A", 30),
      Signed("A", "B", -10), Signed("B", "A", 20) }

Faulty ==
    { Transaction("A", "B", 30, NoSig),
      sign_transaction(Transaction("A", "B", 30, NoSig), "B"),
      Transaction("", "A", 20, NoSig),
      Signed("A", "", 20) }

Coinbases ==
    { Transaction(COINBASE, "A", 50, NoSig),
      Transaction(COINBASE, "B", 50, <<"B", <<COINBASE, "B", 50>>>>),
      Transaction(COINBASE, "", 50, NoSig) }

\* the transactions handed to add_transaction
TxInputs == Transfers \cup Faulty \cup Coinbases

\* the transactions a node receives between its consensus rounds
NodeTxInputs ==
    { Transaction(COINBASE, "A", 50, NoSig), Signed("A", "B", 30),
      Transaction("A", "B", 30, NoSig) }

\* the addresses handed to mine_pending_transactions
Miners == Addresses

\* a peer's chain grown by one block mined on it
Extend(ch, miner, ts) ==
    mine_pending_transactions(ch, <<>>, miner, ts, Difficulty, MiningReward).chain

RECURSIVE PeerChain(_, _)
\* the chain of an honest peer after n - 1 blocks mined by `miner`
PeerChain(n, miner) ==
    IF n = 1 THEN Blockchain(Difficulty, MiningReward, 7).chain
    ELSE Extend(PeerChain(n - 1, miner), miner, 7 + n)

\* a chain with the amount of the first transaction of block 1 changed and the
\* block's hash left as it was
TamperedChain(ch) == [ch EXCEPT ![2].transactions[1].amount = 1000]

\* a chain grown on a block 0 that is no genesis block: it pays its maker and
\* was never mined
ForgedGenesis ==
    <<Block(0, <<tx_to_dict(Transaction(COINBASE, "B", 1000, NoSig))>>, 7,
            [prefix |-> <<3>>, body |-> <<"f">>], 1)>>

PeerChains ==
    << BlockDicts(PeerChain(2, "B")),
       BlockDicts(PeerChain(3, "B")),
       BlockDicts(Extend(Extend(ForgedGenesis, "B", 8), "B", 9)),
       BlockDicts(TamperedChain(PeerChain(4, "A"))) >>

\* what the peers can give: the chains of PeerChains with status 200, then a
\* peer that cannot be reached, one that answers 503 (whatever the body), and
\* one that answers 200 with a JSON object that has no 'chain'
PeerResponses ==
    [k \in 1..Len(PeerChains) |-> Response("chain", PeerChains[k])]
    \o << Response("unreachable", <<>>),
          Response("status", PeerChains[2]),
          Response("malformed", <<>>) >>

\* the peers of a round in which some fail: an honest peer with a valid chain
\* of three blocks and the three kinds of failing peer
FaultChoices == {2, 5, 6, 7}

\* blocks handed to mine_block on their own
BlockInputs ==
    LET fresh == {Block(i, txs, 0, p, n) :
                    i \in 0..1,
                    txs \in {<<>>, <<tx_to_dict(Signed("A", "B", 20))>>},
                    p \in {Sentinel, PeerChain(1, "B")[1].hash},
                    n \in 0..MaxNonce0}
    IN  fresh \cup {[b EXCEPT !.hash = Sentinel] : b \in fresh}
              \cup {[b EXCEPT !.nonce = @ + 1] : b \in fresh}

\* a chain of three blocks mined on a genesis block, two of them with a transfer
VerifyBase ==
    LET g == Blockchain(Difficulty, MiningReward, 0).chain
        c1 == mine_pending_transactions(g, <<>>, "A", 1, Difficulty, MiningReward).chain
        c2 == mine_pending_transactions(c1, <<Signed("A", "B", 20)>>, "B", 2,
                                        Difficulty, MiningReward).chain
    IN  mine_pending_transactions(c2, <<Signed("B", "A", 20)>>, "A", 3,
                                  Difficulty, MiningReward).chain

FaultKinds == {"none", "amount", "link", "unmined", "unsigned"}

\* the block at position p of ch made to fail one check of is_chain_valid:
\*   "amount"   an amount overwritten, the hash left alone
\*   "link"     built and mined on another previous_hash
\*   "unmined"  the nonce moved on and the hash recomputed, not mined
\*   "unsigned" built and mined with one more transfer, which has no signature
Faulted(ch, p, kind) ==
    LET b == ch[p]
        bumped == [b EXCEPT !.nonce = @ + 1]
    IN  CASE kind = "amount" -> [ch EXCEPT ![p].transactions[1].amount = 1000]
          [] kind = "link" ->
               [ch EXCEPT ![p] = mine_block(Block(b.index, b.transactions, b.timestamp,
                                                  Sentinel, 0), Difficulty)]
          [] kind = "unmined" ->
               [ch EXCEPT ![p] = [bumped EXCEPT !.hash = calculate_hash(bumped)]]
          [] kind = "unsigned" ->
               [ch EXCEPT ![p] =
                   mine_block(Block(b.index,
                                    Append(b.transactions,
                                           tx_to_dict(Transaction("A", "B", 5, NoSig))),
                                    b.timestamp, b.previous_hash, 0), Difficulty)]
          [] OTHER -> ch

\* the chains is_chain_valid is called on: what a file or a peer can hold
VerifyInputs ==
    {Faulted(Faulted(Faulted(VerifyBase, 2, k2), 3, k3), 4, k4) :
        k2 \in FaultKinds, k3 \in FaultKinds, k4 \in FaultKinds}

---------------------------------------------------------------------------
(* State machine *)

NoTx == Transaction("", "", 0, NoSig)

NoBlock == Block(0, <<>>, 0, Sentinel, 0)

NoFirst == [active |-> FALSE, sender |-> "", recipient |-> "", B |-> 0, clean |-> FALSE]

NoOp ==
    [op |-> "init", tx |-> NoTx, miner |-> "", cands |-> <<>>, ok |-> FALSE,
     raised |-> FALSE, at |-> 0, max_length |-> 0, chain0 |-> <<>>,
     pending0 |-> <<>>, difficulty0 |-> 0, reward0 |-> 0, first0 |-> NoFirst]

\* the record of a call: the state its last step started from
Called(op) ==
    [NoOp EXCEPT !.op = op, !.chain0 = chain, !.pending0 = pending,
                 !.difficulty0 = difficulty, !.reward0 = mining_reward,
                 !.first0 = first]

NoMining(b) == [pre |-> b, post |-> b, d |-> 0, done |-> FALSE]

\* a thread in is_chain_valid: its position, the range it iterates over, its
\* locals, what it returned, and the values self.chain had when it read it
NoReader ==
    [pc |-> "idle", n |-> 0, i |-> 0, current_block |-> NoBlock, result |-> TRUE,
     raised |-> FALSE, seen |-> {}]

\* a thread in mine_pending_transactions: its position, the arguments of
\* Block(...) evaluated so far (index, the pool as the list comprehension gave
\* it, timestamp), its local `block`, and what was admitted to the pool after
\* the list comprehension
NoJob ==
    [pc |-> "idle", miner |-> "", index |-> 0, pool |-> <<>>, timestamp |-> 0,
     block |-> NoBlock, late |-> <<>>]

\* the threads that serve POST /transactions/new
Submitters == {1, 2}

\* a thread in add_transaction: its position, its argument, whether the tests
\* passed, the local `balance` of its get_balance, the iterator of the loop
\* over the pool (k items met so far; the list it runs over is none yet, the
\* list self.pending_transactions still names, or the list `old` that the
\* attribute named until it was assigned anew), the chain that get_balance
\* read, and what other calls appended to the pool after the tests
NoSub ==
    [pc |-> "idle", tx |-> NoTx, ok |-> FALSE, balance |-> 0, k |-> 0,
     list |-> "none", old |-> <<>>, chain0 |-> <<>>, other |-> <<>>]

\* a thread in resolve_conflicts: its position, its locals max_length and
\* new_chain (<<>> for None), the size self.peers had when the iterator over
\* it was made, the peers the loop has met, in order, and what the node held
\* when the call began: the length of the chain that the call read, the chain
\* and the pool
NoRound ==
    [pc |-> "idle", max_length |-> 0, new_chain |-> <<>>, size |-> 0,
     visited |-> <<>>, length0 |-> 0, chain0 |-> <<>>, pending0 |-> <<>>]

\* Node.__init__: self.blockchain = Blockchain(); self.peers = set()
Init ==
    LET bc == Blockchain(Difficulty, MiningReward, 0)
    IN  /\ chain = bc.chain
        /\ pending = bc.pending_transactions
        /\ difficulty = bc.difficulty
        /\ mining_reward = bc.mining_reward
        /\ now = 1
        /\ lastOp = NoOp
        /\ first = NoFirst
        /\ admitted = 0
        /\ mining = NoMining(bc.chain[1])
        /\ reader = NoReader
        /\ job = NoJob
        /\ sub = [t \in Submitters |-> NoSub]
        /\ round = NoRound
        /\ peers = {}

\* whether some pooled transaction names address a
Involves(pend, a) == \E i \in 1..Len(pend) : pend[i].sender = a \/ pend[i].recipient = a

\* the record kept of an admitted transfer of more than half the balance of a
\* sender that had nothing pooled
FirstAfterSubmit(tx, ok) ==
    IF ~ok THEN first
    ELSE IF /\ tx.sender \in Addresses
            /\ ~Involves(pending, tx.sender)
            /\ 2 * tx.amount > get_balance(chain, pending, tx.sender)
         THEN [active |-> TRUE, sender |-> tx.sender, recipient |-> tx.recipient,
               B |-> get_balance(chain, pending, tx.sender), clean |-> TRUE]
         ELSE [first EXCEPT !.clean = FALSE]

---------------------------------------------------------------------------
(* A Blockchain used by one caller: each call runs to its end *)

\* Blockchain.add_transaction
Submit(tx) ==
    /\ admitted < MaxTx
    /\ LET r == add_transaction(chain, pending, tx)
       IN  /\ pending' = r.pending
           /\ admitted' = IF r.ok THEN admitted + 1 ELSE admitted
           /\ lastOp' = [Called("submit") EXCEPT !.tx = tx, !.ok = r.ok]
           /\ first' = FirstAfterSubmit(tx, r.ok)
    /\ UNCHANGED <<chain, difficulty, mining_reward, now, mining, reader, job, sub,
                   round, peers>>

\* Blockchain.mine_pending_transactions
Mine(miner) ==
    /\ Len(chain) < MaxChain
    /\ LET r == mine_pending_transactions(chain, pending, miner, now,
                                          difficulty, mining_reward)
       IN  /\ chain' = r.chain
           /\ pending' = r.pending
    /\ now' = now + 1
    /\ lastOp' = [Called("mine") EXCEPT !.miner = miner, !.ok = TRUE]
    /\ first' = NoFirst
    /\ UNCHANGED <<difficulty, mining_reward, admitted, mining, reader, job, sub,
                   round, peers>>

SubmitAny == \E tx \in TxInputs : Submit(tx)

MineAny == \E miner \in Miners : Mine(miner)

SubmitNode == \E tx \in NodeTxInputs : Submit(tx)

MineNode == Mine("A")

NextLedger == SubmitAny \/ MineAny

\* a ledger on its own: add_transaction and mine_pending_transactions only
SpecLedger == Init /\ [][NextLedger]_vars

\* a stored block altered behind the ledger's back: the amount of transaction
\* j of the block at position i is overwritten, the block's hash is not
Tamper(i, j, a) ==
    /\ i \in 2..Len(chain)
    /\ j \in 1..Len(chain[i].transactions)
    /\ a # chain[i].transactions[j].amount
    /\ is_chain_valid(chain, difficulty)
    /\ chain' = [chain EXCEPT ![i].transactions[j].amount = a]
    /\ lastOp' = [Called("tamper") EXCEPT !.ok = is_chain_valid(chain, difficulty)]
    /\ UNCHANGED <<pending, difficulty, mining_reward, now, first, admitted, mining,
                   reader, job, sub, round, peers>>

TamperAmounts == {0, 20, 1000}

TamperAny ==
    \E i \in 2..MaxChain, j \in 1..(MaxTx + 1), a \in TamperAmounts : Tamper(i, j, a)

NextTamper == SubmitNode \/ MineNode \/ TamperAny

\* a ledger whose stored blocks may be altered between the calls
SpecTamper == Init /\ [][NextTamper]_vars

\* save_to_file then load_from_file: the ledger becomes the one loaded; the
\* record keeps what is_chain_valid returned before
Reload ==
    LET bc == [chain |-> chain, difficulty |-> difficulty,
               pending_transactions |-> pending, mining_reward |-> mining_reward]
        loaded == load_from_file(to_dict(bc), now)
    IN  /\ chain' = loaded.chain
        /\ pending' = loaded.pending_transactions
        /\ difficulty' = loaded.difficulty
        /\ mining_reward' = loaded.mining_reward
        /\ lastOp' = [Called("reload") EXCEPT !.ok = is_chain_valid(chain, difficulty)]
        /\ UNCHANGED <<now, first, admitted, mining, reader, job, sub, round, peers>>

NextStore == SubmitNode \/ MineNode \/ TamperAny \/ Reload

\* a ledger that is saved and loaded again between the calls, its file intact
\* or not
SpecStore == Init /\ [][NextStore]_vars

\* a block built from given fields, possibly with a hash that is not the hash
\* of its fields, before mine_block is called on it
InitMine ==
    LET bc == Blockchain(Difficulty, MiningReward, 0)
    IN  /\ chain = bc.chain
        /\ pending = bc.pending_transactions
        /\ difficulty = bc.difficulty
        /\ mining_reward = bc.mining_reward
        /\ now = 1
        /\ lastOp = NoOp
        /\ first = NoFirst
        /\ admitted = 0
        /\ mining \in {NoMining(b) : b \in BlockInputs}
        /\ reader = NoReader
        /\ job = NoJob
        /\ sub = [t \in Submitters |-> NoSub]
        /\ round = NoRound
        /\ peers = {}

\* block.mine_block(d)
MineBlock(d) ==
    /\ ~mining.done
    /\ mining' = [pre |-> mining.pre, post |-> mine_block(mining.pre, d),
                  d |-> d, done |-> TRUE]
    /\ UNCHANGED <<chain, pending, difficulty, mining_reward, now, lastOp, first,
                   admitted, reader, job, sub, round, peers>>

NextMine == \E d \in 0..Difficulty : MineBlock(d)

\* mine_block on its own
SpecMine == InitMine /\ [][NextMine]_vars

\* a ledger holding any chain of the catalogue, as loaded from a file or as
\* the scratch ledger of resolve_conflicts
InitVerify ==
    /\ chain \in VerifyInputs
    /\ pending \in {<<>>, <<Signed("A", "B", 20)>>}
    /\ difficulty = Difficulty
    /\ mining_reward = MiningReward
    /\ now = 1
    /\ lastOp = NoOp
    /\ first = NoFirst
    /\ admitted = 0
    /\ mining = NoMining(NoBlock)
    /\ reader = NoReader
    /\ job = NoJob
    /\ sub = [t \in Submitters |-> NoSub]
    /\ round = NoRound
    /\ peers = {}

\* Blockchain.is_chain_valid, run to its end
Verify ==
    /\ lastOp' = [Called("verify") EXCEPT !.ok = is_chain_valid(chain, difficulty),
                                          !.at = ValidateFrom(chain, 1, difficulty)]
    /\ UNCHANGED <<chain, pending, difficulty, mining_reward, now, first, admitted,
                   mining, reader, job, sub, round, peers>>

NextVerify == Verify

\* is_chain_valid on its own
SpecVerify == InitVerify /\ [][NextVerify]_vars

---------------------------------------------------------------------------
(* The node: each request is served in a thread, statement by statement *)

\* GET /validate -> is_chain_valid.
\* for i in range(1, len(self.chain)): the range is computed once
ReadBegin ==
    /\ reader.pc = "idle"
    /\ reader' = [NoReader EXCEPT !.pc = IF 1 < Len(chain) THEN "current" ELSE "done",
                                  !.n = Len(chain), !.i = 1, !.seen = {chain}]
    /\ UNCHANGED <<chain, pending, difficulty, mining_reward, now, lastOp, first,
                   admitted, mining, job, sub, round, peers>>

\* current_block = self.chain[i]; IndexError when the chain the attribute
\* holds by now has no index i
ReadCurrent ==
    /\ reader.pc = "current"
    /\ reader' = IF reader.i + 1 <= Len(chain)
                 THEN [reader EXCEPT !.pc = "previous",
                                     !.current_block = chain[reader.i + 1],
                                     !.seen = @ \cup {chain}]
                 ELSE [reader EXCEPT !.pc = "done", !.raised = TRUE,
                                     !.seen = @ \cup {chain}]
    /\ UNCHANGED <<chain, pending, difficulty, mining_reward, now, lastOp, first,
                   admitted, mining, job, sub, round, peers>>

\* previous_block = self.chain[i - 1], then the four checks on the two locals,
\* then the next iteration or the return
ReadPrevious ==
    /\ reader.pc = "previous"
    /\ IF reader.i <= Len(chain)
       THEN LET previous_block == chain[reader.i]
                passed == BlockChecks(<<previous_block, reader.current_block>>, 1,
                                      difficulty)
            IN  reader' = [reader EXCEPT
                              !.pc = IF passed /\ reader.i + 1 < reader.n
                                     THEN "current" ELSE "done",
                              !.i = @ + 1,
                              !.result = passed,
                              !.seen = @ \cup {chain}]
       ELSE reader' = [reader EXCEPT !.pc = "done", !.raised = TRUE,
                                     !.seen = @ \cup {chain}]
    /\ UNCHANGED <<chain, pending, difficulty, mining_reward, now, lastOp, first,
                   admitted, mining, job, sub, round, peers>>

ReadCall == ReadBegin \/ ReadCurrent \/ ReadPrevious

\* POST /mine -> mine_pending_transactions.
\* self.pending_transactions.insert(0, reward_tx): the list is changed in
\* place, under the loops that run over it
MineInsert(miner) ==
    /\ job.pc \in {"idle", "returned"}
    /\ Len(chain) < MaxChain
    /\ pending' = <<Transaction(COINBASE, miner, mining_reward, NoSig)>> \o pending
    /\ job' = [NoJob EXCEPT !.pc = "inserted", !.miner = miner]
    /\ lastOp' = [Called("mine_call") EXCEPT !.miner = miner]
    /\ first' = NoFirst
    /\ UNCHANGED <<chain, difficulty, mining_reward, now, admitted, mining, reader,
                   sub, round, peers>>

\* block = Block(len(self.chain), ...: the first argument is evaluated
MineIndex ==
    /\ job.pc = "inserted"
    /\ job' = [job EXCEPT !.pc = "indexed", !.index = Len(chain)]
    /\ UNCHANGED <<chain, pending, difficulty, mining_reward, now, lastOp, first,
                   admitted, mining, reader, sub, round, peers>>

\* ... [tx.to_dict() for tx in self.pending_transactions], ...: the second
\* argument.  The loop runs over the live list, which only add_transaction
\* changes meanwhile, by appending: the list it gives is the pool as it is
\* when the loop ends
MineCopy ==
    /\ job.pc = "indexed"
    /\ job' = [job EXCEPT !.pc = "copied", !.pool = pending]
    /\ UNCHANGED <<chain, pending, difficulty, mining_reward, now, lastOp, first,
                   admitted, mining, reader, sub, round, peers>>

\* ... time.time(), ...: the third argument
MineTime ==
    /\ job.pc = "copied"
    /\ job' = [job EXCEPT !.pc = "stamped", !.timestamp = now]
    /\ now' = now + 1
    /\ UNCHANGED <<chain, pending, difficulty, mining_reward, lastOp, first, admitted,
                   mining, reader, sub, round, peers>>

\* ... self.get_latest_block().hash): the last argument, read from the chain
\* the attribute names by now, and the constructor
MineBuild ==
    /\ job.pc = "stamped"
    /\ job' = [job EXCEPT !.pc = "built",
                          !.block = Block(job.index, DictsOf(job.pool), job.timestamp,
                                          get_latest_block(chain).hash, 0)]
    /\ UNCHANGED <<chain, pending, difficulty, mining_reward, now, lastOp, first,
                   admitted, mining, reader, sub, round, peers>>

\* block.mine_block(self.difficulty); self.chain.append(block): the list the
\* attribute names by now is changed in place
MineAppend ==
    /\ job.pc = "built"
    /\ chain' = Append(chain, mine_block(job.block, difficulty))
    /\ job' = [job EXCEPT !.pc = "appended"]
    /\ lastOp' = [Called("mine_append") EXCEPT !.miner = job.miner]
    /\ UNCHANGED <<pending, difficulty, mining_reward, now, first, admitted, mining,
                   reader, sub, round, peers>>

\* what becomes of the iterators over the pool when self.pending_transactions
\* is assigned a new list: one that runs over the list the attribute named
\* keeps that list, as it is now
Detached(pool) ==
    [t \in Submitters |->
        IF sub[t].list = "live" THEN [sub[t] EXCEPT !.list = "old", !.old = pool]
        ELSE sub[t]]

\* the last statement putting back what the block does not hold
MineClear_requeue ==
    /\ job.pc = "appended"
    /\ pending' = job.late
    /\ sub' = Detached(pending)
    /\ job' = [job EXCEPT !.pc = "returned"]
    /\ lastOp' = [Called("mine_return") EXCEPT !.miner = job.miner, !.ok = TRUE]
    /\ UNCHANGED <<chain, difficulty, mining_reward, now, first, admitted, mining,
                   reader, round, peers>>

\* self.pending_transactions = [], and the return
MineClear ==
    /\ job.pc = "appended"
    /\ pending' = <<>>
    /\ sub' = Detached(pending)
    /\ job' = [job EXCEPT !.pc = "returned"]
    /\ lastOp' = [Called("mine_return") EXCEPT !.miner = job.miner, !.ok = TRUE]
    /\ UNCHANGED <<chain, difficulty, mining_reward, now, first, admitted, mining,
                   reader, round, peers>>

MineCall ==
    \/ MineInsert("A")
    \/ MineIndex
    \/ MineCopy
    \/ MineTime
    \/ MineBuild
    \/ MineAppend
    \/ MineClear

\* POST /transactions/new -> add_transaction, in thread t: the tests of the
\* addresses and of the signature, with the return of False when one fails,
\* and for a sender other than COINBASE the first loop of get_balance, over
\* the blocks of self.chain (a list that only grows while it is in use)
SubmitCheck(t, tx) ==
    /\ sub[t].pc \in {"idle", "returned"}
    /\ admitted < MaxTx
    /\ LET passed == ~(tx.sender = "" \/ tx.recipient = "") /\ is_valid(tx)
       IN  /\ sub' = [sub EXCEPT ![t] =
                        [NoSub EXCEPT
                            !.pc = IF ~passed THEN "returned"
                                   ELSE IF tx.sender = COINBASE THEN "checked"
                                   ELSE "pool",
                            !.tx = tx, !.ok = passed,
                            !.balance = IF passed /\ tx.sender # COINBASE
                                        THEN BalanceOverBlocks(0, chain, tx.sender)
                                        ELSE 0,
                            !.chain0 = chain]]
           /\ lastOp' = IF passed THEN lastOp
                        ELSE [Called("submit_return") EXCEPT !.tx = tx, !.ok = FALSE]
    /\ UNCHANGED <<chain, pending, difficulty, mining_reward, now, first, admitted,
                   mining, reader, job, round, peers>>

\* one step of `for tx in self.pending_transactions` in get_balance: the
\* iterator is made over the list the attribute names when the loop begins and
\* gives item k of that list as the list is by now, until k is its length;
\* then the test of the balance, with the return of False when it fails
SubmitPool(t) ==
    /\ sub[t].pc = "pool"
    /\ LET s == sub[t]
           list == IF s.list = "old" THEN s.old ELSE pending
           ok == ~(s.balance < s.tx.amount)
       IN  IF s.k < Len(list)
           THEN /\ sub' = [sub EXCEPT ![t] =
                             [s EXCEPT !.balance = BalanceStep(@, list[s.k + 1],
                                                               s.tx.sender),
                                       !.k = @ + 1,
                                       !.list = IF @ = "none" THEN "live" ELSE @]]
                /\ lastOp' = lastOp
           ELSE /\ sub' = [sub EXCEPT ![t] =
                             [s EXCEPT !.pc = IF ok THEN "checked" ELSE "returned",
                                       !.ok = ok, !.k = 0, !.list = "none",
                                       !.old = <<>>]]
                /\ lastOp' = IF ok THEN lastOp
                             ELSE [Called("submit_return") EXCEPT !.tx = s.tx,
                                                                  !.ok = FALSE]
    /\ UNCHANGED <<chain, pending, difficulty, mining_reward, now, first, admitted,
                   mining, reader, job, round, peers>>

\* self.pending_transactions.append(transaction); return True
SubmitAppend(t) ==
    /\ sub[t].pc = "checked"
    /\ pending' = Append(pending, sub[t].tx)
    /\ admitted' = admitted + 1
    /\ sub' = [u \in Submitters |->
                 IF u = t THEN [sub[t] EXCEPT !.pc = "returned"]
                 ELSE IF sub[u].pc = "checked"
                 THEN [sub[u] EXCEPT !.other = Append(@, sub[t].tx)]
                 ELSE sub[u]]
    /\ lastOp' = [Called("submit_return") EXCEPT !.tx = sub[t].tx, !.ok = TRUE]
    /\ first' = [first EXCEPT !.clean = FALSE]
    /\ job' = IF job.pc \in {"copied", "stamped", "built", "appended"}
              THEN [job EXCEPT !.late = Append(@, sub[t].tx)]
              ELSE job
    /\ UNCHANGED <<chain, difficulty, mining_reward, now, mining, reader, round,
                   peers>>

SubmitCall(t) ==
    (\E tx \in NodeTxInputs : SubmitCheck(t, tx)) \/ SubmitPool(t) \/ SubmitAppend(t)

\* POST /peers/register -> self.peers.add(peer); a peer is named by the
\* answer it gives to GET /chain
RegisterPeer(p) ==
    /\ p \notin peers
    /\ Cardinality(peers) < MaxPeers
    /\ peers' = peers \cup {p}
    /\ UNCHANGED <<chain, pending, difficulty, mining_reward, now, lastOp, first,
                   admitted, mining, reader, job, sub, round>>

\* GET /consensus -> resolve_conflicts.
\* new_chain = None; max_length = len(self.blockchain.chain)
ResolveBegin ==
    /\ round.pc = "idle"
    /\ round' = [NoRound EXCEPT !.pc = "begun", !.max_length = Len(chain),
                                !.length0 = Len(chain), !.chain0 = chain,
                                !.pending0 = pending]
    /\ UNCHANGED <<chain, pending, difficulty, mining_reward, now, lastOp, first,
                   admitted, mining, reader, job, sub, peers>>

\* for peer in self.peers: the iterator is made, and keeps the size the set
\* has by now
ResolveIter ==
    /\ round.pc = "begun"
    /\ round' = [round EXCEPT !.pc = "fetching", !.size = Cardinality(peers)]
    /\ UNCHANGED <<chain, pending, difficulty, mining_reward, now, lastOp, first,
                   admitted, mining, reader, job, sub, peers>>

\* the record of a round: what the node held when the round began
Resolved ==
    [Called("resolve") EXCEPT !.max_length = round.length0,
                              !.chain0 = round.chain0,
                              !.pending0 = round.pending0]

\* what the call leaves when an exception ends it: the chain is not assigned
Raised(visited) ==
    /\ lastOp' = [Resolved EXCEPT !.cands = visited, !.raised = TRUE]
    /\ round' = NoRound
    /\ UNCHANGED <<chain, pending, difficulty, mining_reward, now, first, admitted,
                   mining, reader, job, sub, peers>>

\* the next step of the loop when the set has another size than when the loop
\* began: RuntimeError, Set changed size during iteration
ResolveChanged ==
    /\ round.pc = "fetching"
    /\ Cardinality(peers) # round.size
    /\ Raised(round.visited)

\* one iteration of the loop, for a peer not met yet (the order in which a set
\* gives its members is any order): requests.get and what follows.  A peer
\* out of reach raises a RequestException, which the loop catches; data['chain']
\* on a malformed answer raises KeyError, which it does not
ResolvePeer(p) ==
    /\ round.pc = "fetching"
    /\ Cardinality(peers) = round.size
    /\ p \in peers
    /\ \A i \in 1..Len(round.visited) : round.visited[i] # p
    /\ LET response == PeerResponses[p]
           acc == ResolveStep([max_length |-> round.max_length,
                               new_chain |-> round.new_chain],
                              response.chain, Difficulty)
       IN  IF response.kind = "malformed"
           THEN Raised(Append(round.visited, p))
           ELSE /\ round' = IF response.kind = "chain"
                            THEN [round EXCEPT !.max_length = acc.max_length,
                                               !.new_chain = acc.new_chain,
                                               !.visited = Append(@, p)]
                            ELSE [round EXCEPT !.visited = Append(@, p)]
                /\ UNCHANGED <<chain, pending, difficulty, mining_reward, now, lastOp,
                               first, admitted, mining, reader, job, sub, peers>>

\* the step of the loop that finds every peer met, the set having the size it
\* had when the iterator was made: the loop is over
ResolveLoopEnd ==
    /\ round.pc = "fetching"
    /\ Cardinality(peers) = round.size
    /\ Len(round.visited) = round.size
    /\ round' = [round EXCEPT !.pc = "ended"]
    /\ UNCHANGED <<chain, pending, difficulty, mining_reward, now, lastOp, first,
                   admitted, mining, reader, job, sub, peers>>

\* the end of a consensus round that also empties the pool
ResolveAssign_purging ==
    /\ round.pc = "ended"
    /\ chain' = IF round.new_chain # <<>> THEN round.new_chain ELSE chain
    /\ pending' = IF round.new_chain # <<>> THEN <<>> ELSE pending
    /\ lastOp' = [Resolved EXCEPT !.cands = round.visited,
                                  !.ok = round.new_chain # <<>>]
    /\ first' = IF round.new_chain # <<>> THEN [first EXCEPT !.clean = FALSE] ELSE first
    /\ round' = NoRound
    /\ UNCHANGED <<difficulty, mining_reward, now, admitted, mining, reader, job, sub,
                   peers>>

\* after the loop: if new_chain: self.blockchain.chain = new_chain; return
\* True, else return False.  The only attribute the call assigns is
\* self.blockchain.chain
ResolveAssign ==
    /\ round.pc = "ended"
    /\ chain' = IF round.new_chain # <<>> THEN round.new_chain ELSE chain
    /\ lastOp' = [Resolved EXCEPT !.cands = round.visited,
                                  !.ok = round.new_chain # <<>>]
    /\ first' = IF round.new_chain # <<>> THEN [first EXCEPT !.clean = FALSE] ELSE first
    /\ round' = NoRound
    /\ UNCHANGED <<pending, difficulty, mining_reward, now, admitted, mining, reader,
                   job, sub, peers>>

\* the peers of SpecRace and SpecRead answer with a chain
ChainPeers == 1..Len(PeerChains)

ResolveSteps ==
    \/ ResolveBegin
    \/ ResolveIter
    \/ ResolveChanged
    \/ ResolveLoopEnd
    \/ ResolveAssign

ResolveCall == ResolveSteps \/ \E p \in ChainPeers : ResolvePeer(p)

RegisterAny == \E p \in ChainPeers : RegisterPeer(p)

\* the peers of Spec: one holds the valid chain of three blocks, one cannot be
\* reached
PoolPeers == {2, 5}

Next ==
    \/ SubmitCall(1)
    \/ MineCall
    \/ ResolveSteps
    \/ \E p \in PoolPeers : ResolvePeer(p)
    \/ \E p \in PoolPeers : RegisterPeer(p)

\* a node serving POST /transactions/new, POST /mine, GET /consensus and
\* POST /peers/register
Spec == Init /\ [][Next]_vars

ResolveFaulty == ResolveSteps \/ \E p \in FaultChoices : ResolvePeer(p)

RegisterFaulty == \E p \in FaultChoices : RegisterPeer(p)

NextFaults == MineCall \/ ResolveFaulty \/ RegisterFaulty

\* a node whose peers may be out of reach or answer badly
SpecFaults == Init /\ [][NextFaults]_vars

NextRead == ReadCall \/ MineCall \/ ResolveCall \/ RegisterAny

\* a node serving GET /validate while it mines and runs consensus rounds
SpecRead == Init /\ [][NextRead]_vars

NextMining == SubmitCall(1) \/ MineCall

\* a node serving POST /transactions/new and POST /mine
SpecMining == Init /\ [][NextMining]_vars

\* ledgers a node comes to hold by its own calls: nothing mined, one or two
\* blocks mined by A, and one block mined by A with a transfer of A pooled
OwnLedgers ==
    LET bc == Blockchain(Difficulty, MiningReward, 0)
        one == Extend(bc.chain, "A", 1)
        two == Extend(one, "A", 2)
    IN  { [chain |-> bc.chain, pending |-> <<>>, now |-> 1],
          [chain |-> one, pending |-> <<>>, now |-> 2],
          [chain |-> one, now |-> 2,
           pending |-> add_transaction(one, <<>>, Signed("A", "B", 20)).pending],
          [chain |-> two, pending |-> <<>>, now |-> 3] }

\* a node that holds one of these ledgers and has registered some peers
InitConsensus ==
    /\ \E l \in OwnLedgers :
          /\ chain = l.chain
          /\ pending = l.pending
          /\ now = l.now
          /\ admitted = Len(l.pending)
    /\ difficulty = Difficulty
    /\ mining_reward = MiningReward
    /\ lastOp = NoOp
    /\ first = NoFirst
    /\ mining = NoMining(chain[1])
    /\ reader = NoReader
    /\ job = NoJob
    /\ sub = [t \in Submitters |-> NoSub]
    /\ round = NoRound
    /\ peers \in {ps \in SUBSET ChainPeers : Cardinality(ps) <= MaxPeers}

\* the steps of a round during which no peer is registered
NextConsensus ==
    \/ ResolveBegin
    \/ ResolveIter
    \/ \E p \in ChainPeers : ResolvePeer(p)
    \/ ResolveLoopEnd
    \/ ResolveAssign

\* a node serving GET /consensus, one round at a time
SpecConsensus == InitConsensus /\ [][NextConsensus]_vars

NextRace == MineCall \/ ResolveCall \/ RegisterAny

\* a node serving POST /mine, GET /consensus and POST /peers/register
SpecRace == Init /\ [][NextRace]_vars

NextSubmit == SubmitCall(1) \/ SubmitCall(2) \/ MineCall

\* a node serving POST /transactions/new in two threads and POST /mine in a
\* third
SpecSubmit == Init /\ [][NextSubmit]_vars

---------------------------------------------------------------------------
(* Properties *)

\* every transaction of a chain, block after block
RECURSIVE AllTxs(_)
AllTxs(ch) == IF ch = <<>> THEN <<>> ELSE Head(ch).transactions \o AllTxs(Tail(ch))

RECURSIVE SumOver(_, _)
SumOver(txs, a) ==
    IF txs = <<>> THEN 0
    ELSE (IF Head(txs).recipient = a THEN Head(txs).amount ELSE 0)
         - (IF Head(txs).sender = a THEN Head(txs).amount ELSE 0)
         + SumOver(Tail(txs), a)

\* credits minus debits of address a over the confirmed blocks and the pool
DerivedBalance(ch, pend, a) == SumOver(AllTxs(ch) \o pend, a)

\* C1 (as amended): a transfer from a non-COINBASE sender whose derived balance
\* (confirmed blocks plus pool) is below the amount is rejected and the pool is
\* left as it was; and once a first transfer of more than half the balance B
\* from A to another address was admitted while A had nothing pooled, a second
\* transfer of more than B/2 from A is rejected as long as nothing else was
\* admitted, mined or replaced in between.
C1_DoubleSpendRejected ==
    (lastOp.op = "submit" /\ lastOp.tx.sender # COINBASE) =>
        /\ DerivedBalance(lastOp.chain0, lastOp.pending0, lastOp.tx.sender)
               < lastOp.tx.amount
             => (~lastOp.ok /\ pending = lastOp.pending0)
        /\ ( /\ lastOp.first0.active
             /\ lastOp.first0.clean
             /\ lastOp.first0.sender = lastOp.tx.sender
             /\ lastOp.first0.recipient # lastOp.first0.sender
             /\ 2 * lastOp.tx.amount > lastOp.first0.B )
             => ~lastOp.ok

\* a second transfer of more than B/2, correctly signed, was just rejected
C1_Witness ==
    /\ lastOp.op = "submit"
    /\ is_valid(lastOp.tx)
    /\ lastOp.first0.active /\ lastOp.first0.clean
    /\ lastOp.first0.sender = lastOp.tx.sender
    /\ lastOp.first0.recipient # lastOp.first0.sender
    /\ 2 * lastOp.tx.amount > lastOp.first0.B
    /\ ~lastOp.ok

\* C1 as stated: after a first admitted transfer of more than B/2 from A (A
\* having balance B and nothing pooled), every second transfer of more than
\* B/2 from A before the next mine is rejected.
C1_Original ==
    ( /\ lastOp.op = "submit"
      /\ lastOp.first0.active
      /\ lastOp.first0.sender = lastOp.tx.sender
      /\ 2 * lastOp.tx.amount > lastOp.first0.B )
    => ~lastOp.ok

\* the chain a peer's answer is loaded into
Candidate(k) == BlocksOf(PeerChains[k])

\* the answers of a round that are longer than a chain of length L and valid
Eligible(cs, L) ==
    {i \in 1..Len(cs) :
        Len(Candidate(cs[i])) > L /\ is_chain_valid(Candidate(cs[i]), Difficulty)}

\* the longest of them, the earliest among equally long ones
Best(cs, L) ==
    CHOOSE i \in Eligible(cs, L) :
        \A j \in Eligible(cs, L) :
            \/ Len(Candidate(cs[i])) > Len(Candidate(cs[j]))
            \/ Len(Candidate(cs[i])) = Len(Candidate(cs[j])) /\ i <= j

\* C2: a round over the local chain, of length L, and the answers of the
\* peers, in whatever order they are met, returns; when some answer is longer
\* than L and valid it returns true and the local chain is the longest such
\* answer, the earliest among equally long ones; an adopted chain is always
\* longer than L, and the chain only changes when the round returns true.
C2_LongestValidAdopted ==
    lastOp.op = "resolve" =>
        /\ ~lastOp.raised
        /\ Eligible(lastOp.cands, Len(lastOp.chain0)) # {} =>
              /\ lastOp.ok
              /\ chain = Candidate(lastOp.cands[Best(lastOp.cands,
                                                     Len(lastOp.chain0))])
        /\ lastOp.ok => Len(chain) > Len(lastOp.chain0)
        /\ chain # lastOp.chain0 => lastOp.ok

\* a round in which a longer answer failed validation and met first, and a
\* shorter valid one was adopted
C2_Witness ==
    /\ lastOp.op = "resolve"
    /\ lastOp.ok
    /\ Len(lastOp.cands) = 2
    /\ ~is_chain_valid(Candidate(lastOp.cands[1]), Difficulty)
    /\ Len(Candidate(lastOp.cands[1])) > Len(chain)
    /\ chain = Candidate(lastOp.cands[2])
    /\ Len(lastOp.chain0) > 1

\* C3: when no answer is both longer than the local chain and valid, the
\* round returns false (it does not raise) and the local chain is, block for
\* block, the chain the node held when the round began.
C3_NoValidLongerKeepsChain ==
    (lastOp.op = "resolve" /\ Eligible(lastOp.cands, Len(lastOp.chain0)) = {}) =>
        /\ ~lastOp.raised
        /\ ~lastOp.ok
        /\ chain = lastOp.chain0

\* a round that returned and whose only longer answer failed validation
C3_Witness ==
    /\ lastOp.op = "resolve"
    /\ ~lastOp.raised
    /\ Eligible(lastOp.cands, Len(lastOp.chain0)) = {}
    /\ \E i \in 1..Len(lastOp.cands) :
          Len(Candidate(lastOp.cands[i])) > Len(lastOp.chain0)
    /\ Len(lastOp.chain0) > 1
    /\ chain = lastOp.chain0

\* C4: a chain that verified, with the amount of one transaction of a mined
\* block (index >= 1) overwritten and the block's hash left alone, does not
\* verify.
C4_TamperDetected ==
    (lastOp.op = "tamper" /\ lastOp.ok) => ~is_chain_valid(chain, difficulty)

\* the amount of a transfer (not the reward) of a mined block was overwritten
C4_Witness ==
    /\ lastOp.op = "tamper" /\ lastOp.ok
    /\ \E i \in 2..Len(chain) : \E j \in 2..Len(chain[i].transactions) :
          chain[i].transactions[j].amount # lastOp.chain0[i].transactions[j].amount

\* C5 as stated: chain[0] is a genesis block (sentinel previous_hash, no
\* transactions) and every block, chain[0] included, carries the hash of its
\* fields, which meets the difficulty.
C5_LedgerInvariant ==
    /\ chain[1].previous_hash = Sentinel
    /\ chain[1].transactions = <<>>
    /\ \A i \in 1..Len(chain) :
          /\ chain[i].hash = calculate_hash(chain[i])
          /\ \A k \in 1..difficulty : chain[i].hash.prefix[k] = 0

\* C6: every block after the first names the hash of the block before it and
\* carries its own position as index.
C6_ChainLinked ==
    \A i \in 2..Len(chain) :
        /\ chain[i].previous_hash = chain[i - 1].hash
        /\ chain[i].index = i - 1

\* a chain of at least two mined blocks on the genesis block
C6_Witness == Len(chain) >= 3 /\ lastOp.op = "mine"

\* C7: mine_pending_transactions appends exactly one block, whose transactions
\* are the reward to the miner followed by the pool in admission order, whose
\* index is the former length and whose previous_hash is the hash of the
\* former last block; the pool is empty afterwards.
C7_MineAppendsPool ==
    lastOp.op = "mine" =>
        /\ Len(chain) = Len(lastOp.chain0) + 1
        /\ SubSeq(chain, 1, Len(lastOp.chain0)) = lastOp.chain0
        /\ LET b == chain[Len(chain)]
           IN  /\ Len(b.transactions) = Len(lastOp.pending0) + 1
               /\ b.transactions[1].sender = COINBASE
               /\ b.transactions[1].recipient = lastOp.miner
               /\ b.transactions[1].amount = mining_reward
               /\ \A k \in 1..Len(lastOp.pending0) :
                     b.transactions[k + 1] = lastOp.pending0[k]
               /\ b.index = Len(lastOp.chain0)
               /\ b.previous_hash = lastOp.chain0[Len(lastOp.chain0)].hash
        /\ pending = <<>>

\* a block was mined from a pool of two different transactions
C7_Witness ==
    /\ lastOp.op = "mine"
    /\ Len(lastOp.pending0) = 2
    /\ lastOp.pending0[1] # lastOp.pending0[2]
    /\ Len(chain[Len(chain)].transactions) = 3

\* the first d digits of a digest are zeros
LeadingZeros(h, d) == \A k \in 1..d : h.prefix[k] = 0

\* C8: mine_block(d) on a block whose hash is the hash of its fields leaves a
\* block whose hash is the hash of its fields and has d leading zeros, whose
\* nonce is the smallest one from the pre-mining value on for which this
\* holds, and whose other fields are unchanged.
C8_MinePostcondition ==
    (mining.done /\ mining.pre.hash = calculate_hash(mining.pre)) =>
        /\ mining.post.hash = calculate_hash(mining.post)
        /\ LeadingZeros(mining.post.hash, mining.d)
        /\ mining.post.nonce >= mining.pre.nonce
        /\ \A n \in mining.pre.nonce..(mining.post.nonce - 1) :
              ~LeadingZeros(calculate_hash([mining.pre EXCEPT !.nonce = n]), mining.d)
        /\ mining.post.index = mining.pre.index
        /\ mining.post.transactions = mining.pre.transactions
        /\ mining.post.timestamp = mining.pre.timestamp
        /\ mining.post.previous_hash = mining.pre.previous_hash

\* a consistent block with a nonce above 0 was mined and the search took
\* more than one iteration
C8_Witness ==
    /\ mining.done /\ mining.pre.hash = calculate_hash(mining.pre)
    /\ mining.pre.nonce > 0
    /\ mining.post.nonce > mining.pre.nonce + 1

\* C9: a transaction from COINBASE to a non-empty recipient verifies, signed or
\* not, and add_transaction admits it and appends it to the pool.
C9_CoinbaseAdmitted ==
    /\ \A tx \in TxInputs : tx.sender = COINBASE => is_valid(tx)
    /\ (lastOp.op = "submit" /\ lastOp.tx.sender = COINBASE
          /\ lastOp.tx.recipient # "") =>
           /\ lastOp.ok
           /\ pending = Append(lastOp.pending0, lastOp.tx)

\* a COINBASE transaction carrying a signature was admitted while its sender's
\* derived balance was negative
C9_Witness ==
    /\ lastOp.op = "submit" /\ lastOp.tx.sender = COINBASE
    /\ lastOp.tx.signature # NoSig
    /\ DerivedBalance(lastOp.chain0, lastOp.pending0, COINBASE) < 0
    /\ lastOp.ok

\* C10 as stated: no signed transaction occurs twice among the transactions of
\* the chain and of the pool.
C10_NoSecondOccurrence ==
    LET txs == AllTxs(chain) \o pending
    IN  \A i, j \in 1..Len(txs) :
            (i < j /\ txs[i].signature # NoSig) => txs[i] # txs[j]

\* C11: saving a ledger and loading it again gives the same chain (every field
\* of every block, the stored hash included), the same pool in the same order,
\* the same difficulty and mining_reward, and so the same answer of
\* is_chain_valid, whether the chain verified or not.
C11_RoundTrip ==
    lastOp.op = "reload" =>
        /\ chain = lastOp.chain0
        /\ pending = lastOp.pending0
        /\ difficulty = lastOp.difficulty0
        /\ mining_reward = lastOp.reward0
        /\ is_chain_valid(chain, difficulty) = lastOp.ok

\* a ledger with an altered block and a transaction pooled was saved and loaded
C11_Witness ==
    /\ lastOp.op = "reload"
    /\ ~lastOp.ok
    /\ Len(chain) >= 2
    /\ Len(pending) >= 1

\* the peers of a round that gave a chain longer than a chain of length L which
\* verifies
GoodPeers(cs, L) ==
    {i \in 1..Len(cs) :
        /\ PeerResponses[cs[i]].kind = "chain"
        /\ Len(PeerResponses[cs[i]].chain) > L
        /\ is_chain_valid(BlocksOf(PeerResponses[cs[i]].chain), Difficulty)}

\* C12 as stated: whatever the other peers of the round do (out of reach,
\* status other than 200, malformed answer) and in whatever order they are
\* met, a peer's valid longer chain is adopted and the round returns true.
C12_FaultsIsolated ==
    (lastOp.op = "resolve" /\ GoodPeers(lastOp.cands, lastOp.max_length) # {}) =>
        /\ ~lastOp.raised
        /\ lastOp.ok
        /\ \E i \in GoodPeers(lastOp.cands, lastOp.max_length) :
              chain = BlocksOf(PeerResponses[lastOp.cands[i]].chain)

\* C13 as stated: a validation that runs while the chain is replaced works on
\* the old chain or on the new one: what it returns is what is_chain_valid
\* gives on one of the values self.chain had while it ran.
C13_ReadSeesOneChain ==
    reader.pc = "done" =>
        /\ ~reader.raised
        /\ \E c \in reader.seen : reader.result = is_chain_valid(c, difficulty)

\* C14: a consensus round, whether it replaces the chain or not, returns with
\* the pool (contents and order), difficulty and mining_reward that the node
\* held when the round began.
C14_ResolveKeepsPool ==
    lastOp.op = "resolve" =>
        /\ ~lastOp.raised
        /\ pending = lastOp.pending0
        /\ difficulty = lastOp.difficulty0
        /\ mining_reward = lastOp.reward0

\* the chain was replaced by one on which the sender of a pooled transfer has
\* less than the amount, and the transfer is still pooled
C14_Witness ==
    /\ lastOp.op = "resolve"
    /\ lastOp.ok
    /\ pending # <<>>
    /\ pending = lastOp.pending0
    /\ \E k \in 1..Len(lastOp.pending0) :
          get_balance(lastOp.chain0, <<>>, lastOp.pending0[k].sender)
              >= lastOp.pending0[k].amount
    /\ \E k \in 1..Len(pending) :
          /\ pending[k].sender \in Addresses
          /\ get_balance(chain, <<>>, pending[k].sender) < pending[k].amount

\* C15: add_transaction never changes the chain; mine_pending_transactions
\* leaves every block the chain held as it was, field by field, and appends
\* exactly one block after them.
C15_AppendOnly ==
    /\ lastOp.op = "submit" => chain = lastOp.chain0
    /\ lastOp.op = "mine" =>
          /\ Len(chain) = Len(lastOp.chain0) + 1
          /\ \A i \in 1..Len(lastOp.chain0) : chain[i] = lastOp.chain0[i]

\* a block was appended after a mined block that holds a transfer
C15_Witness ==
    /\ lastOp.op = "mine"
    /\ Len(lastOp.chain0) >= 2
    /\ Len(lastOp.chain0[2].transactions) >= 2
    /\ chain[2] = lastOp.chain0[2]

\* C16: when mine_pending_transactions returns, the pool is empty and the block
\* it appended holds what the pool held when the block was built: a
\* transaction admitted after that and before the pool was cleared is neither
\* in the block nor in the pool.
C16_LateSubmissionDiscarded ==
    lastOp.op = "mine_return" =>
        /\ pending = <<>>
        /\ get_latest_block(chain).transactions = DictsOf(job.pool)
        /\ \A k \in 1..Len(job.late) :
              (\A j \in 1..Len(job.pool) : job.pool[j] # job.late[k]) =>
                  \A j \in 1..Len(get_latest_block(chain).transactions) :
                      get_latest_block(chain).transactions[j] # tx_to_dict(job.late[k])

\* a signed transfer was admitted while the block was being mined, and the
\* call returned
C16_Witness ==
    /\ lastOp.op = "mine_return"
    /\ Len(job.late) >= 1
    /\ job.late[1].sender \in Addresses
    /\ \A j \in 1..Len(job.pool) : job.pool[j] # job.late[1]
    /\ job.late[1] = lastOp.pending0[Len(lastOp.pending0)]

\* C17: add_transaction returns False when the sender or the recipient is
\* empty or when the sender is not COINBASE and the signature is absent or
\* does not verify; it never changes the chain; when it returns False the pool
\* is as it was, when it returns True the transaction was appended to the pool.
C17_SubmitRejects ==
    lastOp.op = "submit" =>
        /\ ( \/ lastOp.tx.sender = ""
             \/ lastOp.tx.recipient = ""
             \/ /\ lastOp.tx.sender # COINBASE
                /\ \/ lastOp.tx.signature = NoSig
                   \/ ~ecdsa_verify(lastOp.tx.sender, lastOp.tx.signature,
                                    tx_calculate_hash(lastOp.tx)) )
             => ~lastOp.ok
        /\ chain = lastOp.chain0
        /\ ~lastOp.ok => pending = lastOp.pending0
        /\ lastOp.ok => pending = Append(lastOp.pending0, lastOp.tx)

\* a transfer signed with another wallet's key was rejected while the pool held
\* a transaction
C17_Witness ==
    /\ lastOp.op = "submit"
    /\ lastOp.tx.sender \in Addresses
    /\ lastOp.tx.recipient \in Addresses
    /\ lastOp.tx.signature # NoSig
    /\ ~lastOp.ok
    /\ get_balance(lastOp.chain0, lastOp.pending0, lastOp.tx.sender) >= lastOp.tx.amount
    /\ Len(pending) >= 1

\* the four conditions on the block at position p (list index p - 1) of ch
FourChecks(ch, p, d) ==
    /\ ch[p].hash = calculate_hash(ch[p])
    /\ ch[p].previous_hash = ch[p - 1].hash
    /\ LeadingZeros(ch[p].hash, d)
    /\ \A k \in 1..Len(ch[p].transactions) : is_valid(tx_from_dict(ch[p].transactions[k]))

\* C18: is_chain_valid returns True exactly when the four conditions hold for
\* every block of index >= 1; when it returns False it does so at the first
\* block for which one of them fails; it changes neither the chain nor the pool.
C18_VerifyIffFourChecks ==
    lastOp.op = "verify" =>
        /\ lastOp.ok <=> \A p \in 2..Len(lastOp.chain0) :
                             FourChecks(lastOp.chain0, p, lastOp.difficulty0)
        /\ lastOp.ok <=> lastOp.at = 0
        /\ ~lastOp.ok =>
              /\ lastOp.at \in 1..(Len(lastOp.chain0) - 1)
              /\ ~FourChecks(lastOp.chain0, lastOp.at + 1, lastOp.difficulty0)
              /\ \A p \in 2..lastOp.at :
                    FourChecks(lastOp.chain0, p, lastOp.difficulty0)
        /\ chain = lastOp.chain0
        /\ pending = lastOp.pending0

\* a chain was refused at block 2 for its link alone, block 1 passing every
\* check and block 3 failing one too
C18_Witness ==
    /\ lastOp.op = "verify"
    /\ ~lastOp.ok
    /\ lastOp.at = 2
    /\ chain[3].hash = calculate_hash(chain[3])
    /\ LeadingZeros(chain[3].hash, difficulty)
    /\ AllTxValid(chain[3].transactions)
    /\ ~FourChecks(chain, 4, difficulty)

\* no transaction of the chain or of the pool has a negative amount
NonNegative(ch, pend) ==
    \A k \in 1..Len(AllTxs(ch) \o pend) : (AllTxs(ch) \o pend)[k].amount >= 0

\* C19 as stated: every transaction of the pool and of every block has an
\* amount >= 0.
C19_AmountsNonNegative == NonNegative(chain, pending)

\* C20: as long as no transaction of negative amount was admitted, every
\* address other than COINBASE has a derived balance >= 0; and mining changes
\* the derived balance of no such address, except that the miner's grows by
\* mining_reward.
C20_NoOverdraft ==
    /\ NonNegative(chain, pending) =>
          \A a \in Addresses : get_balance(chain, pending, a) >= 0
    /\ lastOp.op = "mine" =>
          \A a \in Addresses :
              get_balance(chain, pending, a) =
                  get_balance(lastOp.chain0, lastOp.pending0, a)
                  + (IF a = lastOp.miner THEN lastOp.reward0 ELSE 0)

\* an address spent all it had in two pooled transfers, which were then mined
C20_Witness ==
    /\ lastOp.op = "mine"
    /\ NonNegative(chain, pending)
    /\ Len(lastOp.pending0) = 2
    /\ \E a \in Addresses :
          /\ get_balance(chain, pending, a) = 0
          /\ lastOp.pending0[1].sender = a
          /\ lastOp.pending0[2].sender = a
          /\ lastOp.pending0[1].recipient # a

\* C21 as stated: the block a mining call appends names the hash of the block
\* it is appended after and carries its position as index, also when the chain
\* was replaced while the call ran, so that the chain stays linked.
C21_LinkedUnderReplacement ==
    job.pc \in {"appended", "returned"} =>
        /\ get_latest_block(chain).previous_hash = chain[Len(chain) - 1].hash
        /\ get_latest_block(chain).index = Len(chain) - 1

\* C22 as stated: when a call of add_transaction passed its tests with the
\* sender at balance B, and one other call from the same sender was admitted
\* before it appended (the chain being the same), the two amounts being
\* non-negative and their sum above B, the two are not both admitted.
C22_CheckAndAppendAtomic ==
    \A t \in Submitters :
        ( /\ sub[t].pc = "returned"
          /\ sub[t].tx.sender \in Addresses
          /\ sub[t].chain0 = chain
          /\ Len(sub[t].other) = 1
          /\ sub[t].other[1].sender = sub[t].tx.sender
          /\ sub[t].tx.amount >= 0
          /\ sub[t].other[1].amount >= 0
          /\ sub[t].tx.amount + sub[t].other[1].amount > sub[t].balance )
        => ~sub[t].ok

====
